---- MODULE Spec2Model ----
(***************************************************************************)
(* A model of the 2048 terminal game in main.go: the 4x4 grid, the four    *)
(* faces of linked coordinate lists, board.tilt, board.place,              *)
(* board.changed, createModel and model.Update.                            *)
(***************************************************************************)
EXTENDS Integers, Sequences, FiniteSets, TLC

(* ---- bounds of the model ---- *)
\* a game from createModel is followed for MaxEvents messages
MaxEvents == 2
\* the lines of the input grids of SpecTilt hold 0 or 2^1 .. 2^MaxExp
MaxExp == 3

(* ---- program constants ---- *)
\* the grid is 4x4 and every list of a face has 4 nodes
Size == 4
\* the compaction loop runs for i = 0, 1, 2
ShiftPasses == 3
\* the nil pointer of a list
Nil == 0

Coord == 0 .. (Size - 1)

RECURSIVE Pow2(_)
Pow2(n) == IF n = 0 THEN 1 ELSE 2 * Pow2(n - 1)

(* ---- node, face, board ---- *)
node(x, y) == [x |-> x, y |-> y]

\* createBoard: the grid of zeros
ZeroGrid == [y \in Coord |-> [x \in Coord |-> 0]]

\* createBoard: list i of a face is a sequence of nodes; a pointer into the
\* list is an index 1..Size, and Nil after the last node
top    == [i \in 1 .. Size |-> [j \in 1 .. Size |-> node(i - 1, j - 1)]]

\* a right face whose lists run from x = 0, as those of the left face do
rightAsLeft == [i \in 1 .. Size |-> [j \in 1 .. Size |-> node(j - 1, i - 1)]]

\* a bottom face whose lists run from y = 0, as those of the top face do
bottomAsTop == [i \in 1 .. Size |-> [j \in 1 .. Size |-> node(i - 1, j - 1)]]

right  == [i \in 1 .. Size |-> [j \in 1 .. Size |-> node(3 - (j - 1), i - 1)]]
bottom == [i \in 1 .. Size |-> [j \in 1 .. Size |-> node(i - 1, 3 - (j - 1))]]
left   == [i \in 1 .. Size |-> [j \in 1 .. Size |-> node(j - 1, i - 1)]]

\* a next that steps over a node
NextNodeSkip(list, p) == IF p + 1 < Len(list) THEN p + 2 ELSE Nil

\* n.next
NextNode(list, p) == IF p < Len(list) THEN p + 1 ELSE Nil

\* grid[n.y][n.x]
Cell(g, n) == g[n.y][n.x]

SetCell(g, n, v) == [g EXCEPT ![n.y][n.x] = v]

(* ---- board.tilt ---- *)
\* a skip written with if in place of for: it steps over one zero only
SkipZerosOnce(g, list, p) ==
    IF p # Nil /\ Cell(g, list[p]) = 0 THEN NextNode(list, p) ELSE p

\* for p != nil && grid[p.y][p.x] == 0 { p = p.next }
RECURSIVE SkipZeros(_, _, _)
SkipZeros(g, list, p) ==
    IF p # Nil /\ Cell(g, list[p]) = 0
    THEN SkipZeros(g, list, NextNode(list, p))
    ELSE p

\* a merge that adds a's value to the doubled b before a is cleared
MergeCellsTriple(g, na, nb) ==
    SetCell(SetCell(g, na, 0), nb, Cell(g, nb) * 2 + Cell(g, na))

\* a merge that doubles b and leaves a as it was
MergeCellsKeepA(g, na, nb) == SetCell(g, nb, Cell(g, nb) * 2)

\* grid[ay][ax] = 0; grid[by][bx] *= 2
MergeCells(g, na, nb) == SetCell(SetCell(g, na, 0), nb, Cell(g, nb) * 2)

\* the merge loop of one list; log records every merge (positions of a and b
\* in the list and the value both cells held), iters counts the executions
\* of the loop body, and reads lists the pointers a.coords() and b.coords()
\* were called on
RECURSIVE MergeLoop(_, _, _, _, _)
MergeLoop(g, list, a, b, log) ==
    IF a = Nil \/ b = Nil
    THEN [grid |-> g, log |-> log, iters |-> 0, reads |-> <<>>]
    ELSE LET a1 == SkipZeros(g, list, a) IN
         IF a1 = Nil
         THEN [grid |-> g, log |-> log, iters |-> 1, reads |-> <<>>]
         ELSE LET b1 == SkipZeros(g, list, NextNode(list, a1)) IN
              IF b1 = Nil
              THEN [grid |-> g, log |-> log, iters |-> 1, reads |-> <<>>]
              ELSE LET eq == Cell(g, list[a1]) = Cell(g, list[b1])
                       g1 == IF eq THEN MergeCells(g, list[a1], list[b1]) ELSE g
                       l1 == IF eq
                             THEN Append(log, [a |-> a1, b |-> b1,
                                               v |-> Cell(g, list[a1])])
                             ELSE log
                       r  == MergeLoop(g1, list, NextNode(list, a1), b1, l1)
                   IN [r EXCEPT !.iters = @ + 1, !.reads = <<a1, b1>> \o @]

\* a move that copies b into a and leaves b as it was
SwapCellsCopy(g, na, nb) == SetCell(g, na, Cell(g, nb))

\* grid[ay][ax], grid[by][bx] = grid[by][bx], grid[ay][ax]
SwapCells(g, na, nb) == SetCell(SetCell(g, na, Cell(g, nb)), nb, Cell(g, na))

\* an inner loop that looks at a.next only
SwapNextOnly(g, list, a, b) ==
    IF b = Nil THEN g
    ELSE IF Cell(g, list[b]) # 0 THEN SwapCells(g, list[a], list[b])
    ELSE g

\* the inner loop of the compaction: swap the first non-zero cell after a
\* into a, then break
RECURSIVE SwapFirstNonZero(_, _, _, _)
SwapFirstNonZero(g, list, a, b) ==
    IF b = Nil THEN g
    ELSE IF Cell(g, list[b]) # 0 THEN SwapCells(g, list[a], list[b])
    ELSE SwapFirstNonZero(g, list, a, NextNode(list, b))

\* a compaction loop whose test is grid[ay][ax] != 0
RECURSIVE ShiftLoopNonZero(_, _, _, _)
ShiftLoopNonZero(g, list, a, i) ==
    IF i >= ShiftPasses THEN g
    ELSE LET g1 == IF Cell(g, list[a]) # 0
                   THEN SwapFirstNonZero(g, list, a, NextNode(list, a))
                   ELSE g
         IN ShiftLoopNonZero(g1, list, NextNode(list, a), i + 1)

\* the pointers the compaction loop calls a.coords() on, up to the first nil
RECURSIVE ShiftReads(_, _, _)
ShiftReads(list, a, i) ==
    IF i >= ShiftPasses THEN <<>>
    ELSE IF a = Nil THEN <<Nil>>
    ELSE <<a>> \o ShiftReads(list, NextNode(list, a), i + 1)

\* the compaction loop of one list: for i := 0; i < 3; i++; a.coords() on a
\* nil pointer ends it
RECURSIVE ShiftLoop(_, _, _, _)
ShiftLoop(g, list, a, i) ==
    IF i >= ShiftPasses \/ a = Nil THEN g
    ELSE LET g1 == IF Cell(g, list[a]) = 0
                   THEN SwapFirstNonZero(g, list, a, NextNode(list, a))
                   ELSE g
         IN ShiftLoop(g1, list, NextNode(list, a), i + 1)

\* the values of a list read from its head
LineOf(g, list) == [p \in 1 .. Len(list) |-> Cell(g, list[p])]

\* for _, list := range face: merge loop, then compaction loop.  The trace
\* keeps, per list, the line before, after the merge loop and after the
\* compaction loop, the merges made, the iterations of the merge loop and
\* the pointers whose coordinates the two loops read.
RECURSIVE TiltFrom(_, _, _, _)
TiltFrom(g, face, k, tr) ==
    IF k > Len(face) THEN [grid |-> g, trace |-> tr]
    ELSE LET m == MergeLoop(g, face[k], 1, 1, <<>>)
             c == ShiftLoop(m.grid, face[k], 1, 0)
         IN TiltFrom(c, face, k + 1,
                     Append(tr, [before |-> LineOf(g, face[k]),
                                 merged |-> LineOf(m.grid, face[k]),
                                 after  |-> LineOf(c, face[k]),
                                 log    |-> m.log,
                                 iters  |-> m.iters,
                                 mergeReads |-> m.reads,
                                 shiftReads |-> ShiftReads(face[k], 1, 0)]))

tilt(g, face) == TiltFrom(g, face, 1, <<>>).grid

(* ---- board.place ---- *)
\* the cells in the order of the two range loops: y outer, x inner
AllCells == [k \in 1 .. Size * Size |-> node((k - 1) % Size, (k - 1) \div Size)]

IsEmptyCell(g, n) == Cell(g, n) = 0

\* options: the empty cells in row-major order
RECURSIVE OptionsFrom(_, _)
OptionsFrom(g, k) ==
    IF k > Len(AllCells) THEN <<>>
    ELSE IF IsEmptyCell(g, AllCells[k])
         THEN <<AllCells[k]>> \o OptionsFrom(g, k + 1)
         ELSE OptionsFrom(g, k + 1)

Options(g) == OptionsFrom(g, 1)

\* a place that writes a 4
NewTileFour == 2 + 2

\* the value place writes
NewTile == 2

\* a place that indexes all cells instead of the options
placeAnyCell(g, i) == SetCell(g, AllCells[i + 1], NewTile)

\* b.grid[y][x] = 2 for item = options[i]
place(g, i) == SetCell(g, Options(g)[i + 1], NewTile)

(* ---- board.changed ---- *)
\* a comparison that reads prev[x][y]
changedTransposed(g, p) == \E y \in Coord : \E x \in Coord : g[y][x] # p[x][y]

changed(g, p) == \E y \in Coord : \E x \in Coord : g[y][x] # p[y][x]

(* ---- messages ---- *)
KeyMsg(s) == [type |-> "KeyMsg", str |-> s]
QuitKeys  == {"ctrl+c", "q"}
LeftKeys  == {"left", "h"}
UpKeys    == {"up", "k"}
RightKeys == {"right", "l"}
DownKeys  == {"down", "j"}
OtherKeys == {"x", "enter"}
OtherMsgs == {[type |-> "WindowSizeMsg", str |-> ""]}

\* the case of the two switch statements of Update that a message takes
SwitchCase(m) ==
    IF m.type # "KeyMsg" THEN "none"
    ELSE IF m.str \in QuitKeys  THEN "quit"
    ELSE IF m.str \in LeftKeys  THEN "left"
    ELSE IF m.str \in UpKeys    THEN "up"
    ELSE IF m.str \in RightKeys THEN "right"
    ELSE IF m.str \in DownKeys  THEN "down"
    ELSE "none"

Directions == {"left", "up", "right", "down"}

\* the face each direction case passes to tilt
FaceOf(c) ==
    CASE c = "left"  -> left
      [] c = "up"    -> top
      [] c = "right" -> right
      [] c = "down"  -> bottom

(* ---- state ---- *)
VARIABLES
    grid,       \* m.board.grid
    prev,       \* the snapshot the last Update took of the grid
    mid,        \* the grid of the last Update after the switch, before place
    trace,      \* per list of the last tilt: line before/merged/after, merges
    branch,     \* the switch case the last message took ("init" before any)
    placeLens,  \* len(options) of every place call of the last operation
    panicked,   \* rand.Intn was called with 0
    quit,       \* Update returned tea.Quit
    moves,      \* effective moves (Updates that placed a tile) so far
    events,     \* messages Update has handled so far
    limit       \* the run is followed until events reaches limit

vars == <<grid, prev, mid, trace, branch, placeLens, panicked, quit, moves,
          events, limit>>

(* ---- createModel ---- *)
Start(n) ==
    \E i \in 0 .. (Len(Options(ZeroGrid)) - 1) :
      LET g1 == place(ZeroGrid, i) IN
      \E j \in 0 .. (Len(Options(g1)) - 1) :
        /\ grid = place(g1, j)
        /\ prev = ZeroGrid
        /\ mid = ZeroGrid
        /\ trace = <<>>
        /\ branch = "init"
        /\ placeLens = <<Len(Options(ZeroGrid)), Len(Options(g1))>>
        /\ panicked = FALSE
        /\ quit = FALSE
        /\ moves = 0
        /\ events = 0
        /\ limit = n

Init == Start(MaxEvents)

(* ---- model.Update ---- *)
\* some message of the set ms takes the switch case c
Delivers(ms, c) == {m \in ms : SwitchCase(m) = c} # {}

Keys(ks) == {KeyMsg(s) : s \in ks}

\* the messages are delivered one at a time while the program runs
Ready == events < limit /\ ~quit /\ ~panicked

\* the part of Update after the switch: changed, then place
Finish(c, t) ==
    /\ prev' = grid
    /\ branch' = c
    /\ mid' = t.grid
    /\ trace' = t.trace
    /\ quit' = quit
    /\ events' = events + 1
    /\ limit' = limit
    /\ IF changed(t.grid, grid)
       THEN LET n == Len(Options(t.grid)) IN
            /\ placeLens' = <<n>>
            /\ moves' = moves + 1
            /\ IF n = 0
               THEN /\ panicked' = TRUE
                    /\ grid' = t.grid
               ELSE /\ panicked' = panicked
                    /\ \E i \in 0 .. (n - 1) : grid' = place(t.grid, i)
       ELSE /\ placeLens' = <<>>
            /\ moves' = moves
            /\ panicked' = panicked
            /\ grid' = t.grid

\* case "ctrl+c", "q": return m, tea.Quit
UpdateQuit ==
    /\ Ready
    /\ Delivers(Keys(QuitKeys), "quit")
    /\ branch' = "quit"
    /\ prev' = grid
    /\ mid' = grid
    /\ trace' = <<>>
    /\ placeLens' = <<>>
    /\ quit' = TRUE
    /\ events' = events + 1
    /\ UNCHANGED <<grid, panicked, moves, limit>>

UpdateLeft ==
    /\ Ready
    /\ Delivers(Keys(LeftKeys), "left")
    /\ Finish("left", TiltFrom(grid, FaceOf("left"), 1, <<>>))

UpdateUp ==
    /\ Ready
    /\ Delivers(Keys(UpKeys), "up")
    /\ Finish("up", TiltFrom(grid, FaceOf("up"), 1, <<>>))

UpdateRight ==
    /\ Ready
    /\ Delivers(Keys(RightKeys), "right")
    /\ Finish("right", TiltFrom(grid, FaceOf("right"), 1, <<>>))

UpdateDown ==
    /\ Ready
    /\ Delivers(Keys(DownKeys), "down")
    /\ Finish("down", TiltFrom(grid, FaceOf("down"), 1, <<>>))

\* a key no case matches, or a message that is no tea.KeyMsg
UpdateOther ==
    /\ Ready
    /\ Delivers(Keys(OtherKeys) \cup OtherMsgs, "none")
    /\ Finish("none", [grid |-> grid, trace |-> <<>>])

Next ==
    \/ UpdateQuit
    \/ UpdateLeft
    \/ UpdateUp
    \/ UpdateRight
    \/ UpdateDown
    \/ UpdateOther

\* the game: createModel, then up to MaxEvents messages
Spec == Init /\ [][Next]_vars

(* ---- one move on an arbitrary grid ---- *)
Vals == {0} \cup {Pow2(e) : e \in 1 .. MaxExp}

Lines == [1 .. Size -> Vals]

\* a full grid on which no direction merges or moves anything
Checker == [y \in Coord |-> [x \in Coord |-> IF (x + y) % 2 = 0 THEN 2 ELSE 4]]

\* a full grid on which every direction merges
AllTwos == [y \in Coord |-> [x \in Coord |-> 2]]

Backgrounds == {ZeroGrid, Checker, AllTwos}

\* the grid bg with the cells of list holding line
Embed(bg, list, line) ==
    [y \in Coord |-> [x \in Coord |->
        IF \E p \in 1 .. Len(list) : list[p] = node(x, y)
        THEN line[CHOOSE p \in 1 .. Len(list) : list[p] = node(x, y)]
        ELSE bg[y][x]]]

\* every line over Vals as any row or any column of every background
InputGrids ==
    {Embed(bg, f[k], line) :
        bg \in Backgrounds, f \in {left, top}, k \in 1 .. Size, line \in Lines}

InitTilt ==
    \/ Start(1)
    \/ \E g \in InputGrids :
         /\ grid = g
         /\ prev = g
         /\ mid = g
         /\ trace = <<>>
         /\ branch = "init"
         /\ placeLens = <<>>
         /\ panicked = FALSE
         /\ quit = FALSE
         /\ moves = 0
         /\ events = 0
         /\ limit = 1

\* one message handled by Update on the grids of createModel and on the
\* input grids
SpecTilt == InitTilt /\ [][Next]_vars

(* ---- model.View ---- *)
\* len(styles)
NumStyles == 12

\* int(math.Log2(f)) for f > 0
RECURSIVE Log2Floor(_)
Log2Floor(v) == IF v < 2 THEN 0 ELSE 1 + Log2Floor(v \div 2)

\* the index into styles View uses for a cell
StyleIndex(v) == IF v > 0 THEN Log2Floor(v) ELSE 0

\* every styles[...] of View is within the table
ViewInRange(g) ==
    \A y \in Coord : \A x \in Coord : StyleIndex(g[y][x]) < NumStyles

\* the sum of a sequence and of the 16 cells of a grid
RECURSIVE SumSeq(_)
SumSeq(s) == IF s = <<>> THEN 0 ELSE Head(s) + SumSeq(Tail(s))

GridSum(g) == SumSeq([k \in 1 .. Len(AllCells) |-> Cell(g, AllCells[k])])

(* ---- a late game ---- *)
\* the largest tile styles has an entry for
TopTile == Pow2(NumStyles - 1)

\* grids late in a game: two tiles of 2048 side by side in the top row, as a
\* Left tilt of [2048,1024,1024,0] leaves them, and the 2 placed after it on
\* any cell of the other rows
LateGrids ==
    {[ZeroGrid EXCEPT ![0] = [x \in Coord |-> IF x < 2 THEN TopTile ELSE 0],
                      ![n.y][n.x] = NewTile] :
        n \in {c \in {AllCells[k] : k \in DOMAIN AllCells} : c.y > 0}}

InitLate ==
    \E g \in LateGrids :
         /\ grid = g
         /\ prev = g
         /\ mid = g
         /\ trace = <<>>
         /\ branch = "init"
         /\ placeLens = <<>>
         /\ panicked = FALSE
         /\ quit = FALSE
         /\ moves = (GridSum(g) - 4) \div 2
         /\ events = 0
         /\ limit = MaxEvents

\* the game continued from the late grids for MaxEvents messages
SpecLate == InitLate /\ [][Next]_vars

(* ---- helpers of the properties ---- *)
RECURSIVE IsPow2(_)
IsPow2(v) == v >= 2 /\ (v = 2 \/ (v % 2 = 0 /\ IsPow2(v \div 2)))

HasZero(g) == \E y \in Coord : \E x \in Coord : g[y][x] = 0

\* the last Update tilted the grid
Tilted == branch \in Directions

\* the last Update placed a tile
Spawned == Tilted /\ placeLens # <<>>

SomeMerge == \E k \in DOMAIN trace : trace[k].log # <<>>

\* C1: in every state reachable from createModel by Updates, every cell of the
\* grid holds 0 or a power of two that is at least 2
C1_CellsArePowersOfTwo ==
    \A y \in Coord : \A x \in Coord : grid[y][x] = 0 \/ IsPow2(grid[y][x])

\* a move that merged two tiles and then placed a tile
C1_Witness ==
    /\ Spawned
    /\ SomeMerge
    /\ \E y \in Coord : \E x \in Coord : grid[y][x] >= 4

\* C2: place never runs on a full grid: every place call (the two of
\* createModel and the one of an effective Update) sees at least one option,
\* a tilt that changed a cell leaves a cell holding 0, and rand.Intn(0) is
\* never reached
C2_PlaceHasAnOption ==
    /\ ~panicked
    /\ \A k \in DOMAIN placeLens : placeLens[k] >= 1
    /\ (Tilted /\ mid # prev) => HasZero(mid)

\* an effective move on a grid that was full before the move
C2_Witness ==
    /\ Spawned
    /\ ~HasZero(prev)
    /\ mid # prev
    /\ placeLens[1] >= 1

\* the values of row y from x = 0 to x = 3
RowOf(g, y) == [p \in 1 .. Size |-> g[y][p - 1]]

\* no position holding 0 is followed by a non-zero value
Compacted(line) ==
    \A p \in DOMAIN line : \A q \in DOMAIN line :
        (p < q /\ line[p] = 0) => line[q] = 0

\* the merges of one list use pairwise disjoint cells
DisjointMerges(log) ==
    \A i \in DOMAIN log : \A j \in DOMAIN log :
        i < j => {log[i].a, log[i].b} \cap {log[j].a, log[j].b} = {}

\* C3: within one tilt of a line no cell takes part in two merges (a tile
\* produced by a merge is never merged again in the same tilt), and the line
\* [2,2,2,2] becomes [4,4,0,0]
C3_NoCellMergesTwice ==
    Tilted =>
        \A k \in DOMAIN trace :
            /\ DisjointMerges(trace[k].log)
            /\ trace[k].before = <<2, 2, 2, 2>> => trace[k].after = <<4, 4, 0, 0>>

\* C4: after a tilt, in each of the 4 lines of the tilt's direction the
\* non-zero values are a prefix from the line's head
C4_LinesCompacted ==
    Tilted =>
        \A k \in 1 .. Size : Compacted(LineOf(mid, FaceOf(branch)[k]))

\* a tilt of a line that had a gap before the tilt and still had one after
\* the merge loop
C4_Witness ==
    /\ Tilted
    /\ \E k \in DOMAIN trace :
         /\ ~Compacted(trace[k].before)
         /\ ~Compacted(trace[k].merged)
         /\ trace[k].log # <<>>
         /\ trace[k].after[2] # 0

\* the cells in which two grids differ
Diff(g, h) == {k \in DOMAIN AllCells : Cell(g, AllCells[k]) # Cell(h, AllCells[k])}

\* C5: after an effective move the grid differs from the grid right after the
\* tilt in exactly one cell, which held 0 after the tilt and holds 2 now
C5_SpawnOneTwo ==
    (Tilted /\ mid # prev) =>
        /\ Cardinality(Diff(grid, mid)) = 1
        /\ \A k \in Diff(grid, mid) :
             Cell(mid, AllCells[k]) = 0 /\ Cell(grid, AllCells[k]) = 2

\* an effective move whose new tile is not on the first empty cell
C5_Witness ==
    /\ Tilted
    /\ mid # prev
    /\ grid # mid
    /\ grid # place(mid, 0)

\* C6: a step places a tile if and only if its tilt changed a cell; a tilt
\* that changes nothing leaves the grid as it was before the step, and the
\* same direction again leaves it so
C6_SpawnIffChanged ==
    /\ [](Tilted => /\ (placeLens # <<>>) <=> (mid # prev)
                    /\ (mid = prev) => (grid = prev))
    /\ [][(Tilted /\ mid = prev /\ branch' = branch)
            => (grid' = grid /\ placeLens' = <<>>)]_vars

\* a second message in a row that changes nothing, the second one a tilt
C6_Witness ==
    /\ Tilted
    /\ events = 2
    /\ moves = 0
    /\ mid = prev
    /\ grid = prev
    /\ placeLens = <<>>
    /\ trace # <<>>

\* a line on which a tilt has nothing to do
Settled(line) ==
    /\ Compacted(line)
    /\ \A p \in DOMAIN line :
         (p + 1 \in DOMAIN line /\ line[p] # 0) => line[p] # line[p + 1]

\* C7: a tilt in a direction whose lines are all compacted and hold no two
\* equal consecutive non-zero values changes no cell and places no tile
C7_SettledIsFixed ==
    (Tilted /\ \A k \in 1 .. Size : Settled(LineOf(prev, FaceOf(branch)[k])))
        => (mid = prev /\ grid = prev /\ placeLens = <<>>)

\* a tilt of a settled grid that has a line of four tiles
C7_Witness ==
    /\ Tilted
    /\ \A k \in 1 .. Size : Settled(LineOf(prev, FaceOf(branch)[k]))
    /\ \E k \in 1 .. Size : LineOf(prev, FaceOf(branch)[k])[Size] # 0
    /\ grid = prev

\* twice the value of every merged pair of a list
RECURSIVE PairValues(_)
PairValues(log) ==
    IF log = <<>> THEN 0 ELSE 2 * Head(log).v + PairValues(Tail(log))

\* C8 as stated: the merge loop raises the sum of a line by the values of
\* the merged pairs, and the compaction loop leaves the sum as it is
C8_SumGrowsByMerges ==
    Tilted =>
        \A k \in DOMAIN trace :
            /\ SumSeq(trace[k].merged)
                 = SumSeq(trace[k].before) + PairValues(trace[k].log)
            /\ SumSeq(trace[k].after) = SumSeq(trace[k].merged)

\* C8 as amended: neither the merge loop nor the compaction loop changes the
\* sum of a line, so a tilt leaves the sum of the grid unchanged
C8_SumConserved ==
    Tilted =>
        /\ \A k \in DOMAIN trace :
             /\ SumSeq(trace[k].merged) = SumSeq(trace[k].before)
             /\ SumSeq(trace[k].after) = SumSeq(trace[k].merged)
        /\ GridSum(mid) = GridSum(prev)

\* a tilt that merged a pair of a line and then moved a tile of that line
C8_Witness ==
    /\ Tilted
    /\ \E k \in DOMAIN trace :
         /\ trace[k].log # <<>>
         /\ trace[k].after # trace[k].merged

\* C9: a Left tilt turns a row [2,2,4,0] into [4,4,0,0]
C9_Row2240 ==
    branch = "left" =>
        \A y \in Coord :
            RowOf(prev, y) = <<2, 2, 4, 0>> => RowOf(mid, y) = <<4, 4, 0, 0>>

\* C10: a Left tilt turns a row [4,2,2,4] into [4,4,4,0]
C10_Row4224 ==
    branch = "left" =>
        \A y \in Coord :
            RowOf(prev, y) = <<4, 2, 2, 4>> => RowOf(mid, y) = <<4, 4, 4, 0>>

\* the number of non-zero cells of a line
NonZeros(line) == Cardinality({p \in DOMAIN line : line[p] # 0})

\* the four cells of the line hold the same non-zero value
FourEqual(line) == line[1] # 0 /\ \A p \in DOMAIN line : line[p] = line[1]

\* C11 as stated: the tilt of a line [v,v,v,v] merges only the first pair and
\* leaves exactly three non-zero cells
C11_FourEqualLeavesThree ==
    Tilted =>
        \A k \in DOMAIN trace :
            FourEqual(trace[k].before) =>
                /\ Len(trace[k].log) = 1
                /\ NonZeros(trace[k].after) = 3

\* C11 as amended: the tilt of a line [v,v,v,v] merges the first pair and the
\* second pair, and the line becomes [2v,2v,0,0] with two non-zero cells
C11_FourEqualLeavesTwo ==
    Tilted =>
        \A k \in DOMAIN trace :
            FourEqual(trace[k].before) =>
                /\ Len(trace[k].log) = 2
                /\ trace[k].after
                     = <<2 * trace[k].before[1], 2 * trace[k].before[1], 0, 0>>
                /\ NonZeros(trace[k].after) = 2

\* a tilt of a line of four 8s
C11_Witness ==
    /\ Tilted
    /\ \E k \in DOMAIN trace :
         /\ trace[k].before = <<8, 8, 8, 8>>
         /\ trace[k].after = <<16, 16, 0, 0>>

\* the only non-zero cells of the line are two cells holding the same value
TwoEqualOnly(line) ==
    /\ NonZeros(line) = 2
    /\ \A p \in DOMAIN line : \A q \in DOMAIN line :
         (line[p] # 0 /\ line[q] # 0) => line[p] = line[q]

\* the largest value of a line
MaxOf(line) == CHOOSE v \in {line[p] : p \in DOMAIN line} :
                   \A p \in DOMAIN line : line[p] <= v

\* C12: two equal tiles of a line with only empty cells between them merge:
\* a line whose only non-zero cells are two cells holding v becomes
\* [2v,0,0,0]; the row [2,0,0,2] tilted Left becomes [4,0,0,0]
C12_SeparatedPairMerges ==
    Tilted =>
        /\ \A k \in DOMAIN trace :
             TwoEqualOnly(trace[k].before) =>
                 trace[k].after = <<2 * MaxOf(trace[k].before), 0, 0, 0>>
        /\ branch = "left" =>
             \A y \in Coord :
                 RowOf(prev, y) = <<2, 0, 0, 2>> => RowOf(mid, y) = <<4, 0, 0, 0>>

\* a Left tilt of a grid with a row [2,0,0,2]
C12_Witness ==
    /\ branch = "left"
    /\ \E y \in Coord :
         RowOf(prev, y) = <<2, 0, 0, 2>> /\ RowOf(mid, y) = <<4, 0, 0, 0>>

\* the cells that hold 2
Twos(g) == {k \in DOMAIN AllCells : Cell(g, AllCells[k]) = 2}

\* C13: the state createModel produces is a grid with exactly two cells
\* holding 2 and fourteen holding 0: the second place never takes the cell of
\* the first
C13_TwoTwosAtStart ==
    events = 0 =>
        /\ Cardinality(Twos(grid)) = 2
        /\ \A k \in DOMAIN AllCells : Cell(grid, AllCells[k]) \in {0, 2}
        /\ Cardinality({k \in DOMAIN AllCells : Cell(grid, AllCells[k]) = 0}) = 14
        /\ placeLens = <<16, 15>>

\* createModel with the first tile on cell (0,0) and the second, drawn with
\* index 0, on cell (1,0)
C13_Witness ==
    /\ events = 0
    /\ branch = "init"
    /\ grid = place(place(ZeroGrid, 0), 0)
    /\ grid[0][0] = 2
    /\ grid[0][1] = 2

\* the places of a face that hold the coordinate of cell (x, y)
PlacesOf(f, x, y) ==
    {ij \in (DOMAIN f) \X (1 .. 4) : f[ij[1]][ij[2]] = node(x, y)}

\* 4 lists of 4 coordinates in 0..3 x 0..3, and every cell of the grid g is
\* the coordinate of exactly one place of the face
FaceCovers(f, g) ==
    /\ DOMAIN f = 1 .. 4
    /\ \A i \in DOMAIN f :
         /\ DOMAIN f[i] = 1 .. 4
         /\ \A j \in DOMAIN f[i] : f[i][j].x \in 0 .. 3 /\ f[i][j].y \in 0 .. 3
    /\ \A y \in DOMAIN g : \A x \in DOMAIN g[y] :
         Cardinality(PlacesOf(f, x, y)) = 1

\* C14: on the board createModel returns, each face has exactly 4 lists of
\* exactly 4 coordinates, all in 0..3 x 0..3, every cell of the grid is the
\* coordinate of exactly one place of the face, and the head of every list
\* lies on the edge the face is named after
C14_FacesCoverGrid ==
    events = 0 =>
        /\ DOMAIN grid = 0 .. 3
        /\ \A y \in DOMAIN grid : DOMAIN grid[y] = 0 .. 3
        /\ FaceCovers(top, grid) /\ FaceCovers(right, grid)
        /\ FaceCovers(bottom, grid) /\ FaceCovers(left, grid)
        /\ \A i \in 1 .. 4 :
             /\ top[i][1].y = 0
             /\ right[i][1].x = 3
             /\ bottom[i][1].y = 3
             /\ left[i][1].x = 0

\* a Down tilt that moved a tile onto the bottom edge, the head of its list
C14_Witness ==
    /\ branch = "down"
    /\ \E i \in 1 .. 4 :
         /\ Cell(prev, bottom[i][1]) = 0
         /\ Cell(mid, bottom[i][1]) # 0
         /\ bottom[i][1].y = 3

\* the grid with x replaced by 3 - x, with y replaced by 3 - y, and with x
\* and y exchanged
MirrorH(g) == [y \in Coord |-> [x \in Coord |-> g[y][(Size - 1) - x]]]
MirrorV(g) == [y \in Coord |-> [x \in Coord |-> g[(Size - 1) - y][x]]]
Transpose(g) == [y \in Coord |-> [x \in Coord |-> g[x][y]]]

\* C15: for every grid a message can find, the tilt Right of the grid is the
\* horizontal mirror of the tilt Left of the mirrored grid, the tilt Up is
\* the transpose of the tilt Left of the transposed grid, and the tilt Down
\* is the vertical mirror of the tilt Up of the vertically mirrored grid
C15_DirectionsAreSymmetric ==
    events = 0 =>
        /\ tilt(grid, right) = MirrorH(tilt(MirrorH(grid), left))
        /\ tilt(grid, top) = Transpose(tilt(Transpose(grid), left))
        /\ tilt(grid, bottom) = MirrorV(tilt(MirrorV(grid), top))

\* a Right tilt that merged and moved tiles of a grid that is not its own
\* mirror image, and whose result differs from that of the Left tilt
C15_Witness ==
    /\ branch = "right"
    /\ SomeMerge
    /\ prev # MirrorH(prev)
    /\ mid # tilt(prev, left)
    /\ mid = MirrorH(tilt(MirrorH(prev), left))

\* the elements of a sequence
Range(s) == {s[i] : i \in DOMAIN s}

\* C16: in every tilt the merge loop of each list ends after at most as many
\* iterations as the list has nodes, and neither the merge loop nor the
\* three passes of the compaction loop read the coordinates of a nil node
C16_TiltIsTotal ==
    Tilted =>
        /\ Len(trace) = 4
        /\ \A k \in DOMAIN trace :
             /\ trace[k].iters >= 1
             /\ trace[k].iters <= Len(trace[k].before)
             /\ Nil \notin Range(trace[k].mergeReads)
             /\ Nil \notin Range(trace[k].shiftReads)
             /\ Len(trace[k].shiftReads) = 3

\* a tilt whose merge loop ran four times on a list, once per tile
C16_Witness ==
    /\ Tilted
    /\ \E k \in DOMAIN trace :
         /\ trace[k].iters = 4
         /\ trace[k].mergeReads = <<1, 2, 2, 3, 3, 4>>
         /\ trace[k].shiftReads = <<1, 2, 3>>

\* the eight direction keys
DirectionKeys == LeftKeys \cup UpKeys \cup RightKeys \cup DownKeys

\* C17: a message that is not one of the eight direction keys (a key no case
\* matches, a message that is no key, q, ctrl+c) takes no direction case, and
\* the Update that handles it changes no cell and places no tile
C17_OtherMessagesChangeNothing ==
    /\ \A m \in Keys(OtherKeys) \cup OtherMsgs \cup Keys(QuitKeys) :
         SwitchCase(m) \notin Directions
    /\ \A m \in Keys(DirectionKeys) : SwitchCase(m) \in Directions
    /\ branch \in {"none", "quit"} =>
         /\ grid = prev
         /\ mid = prev
         /\ placeLens = <<>>
         /\ trace = <<>>

\* a message that is no direction key, handled after an effective move left
\* tiles that a Left tilt would move
C17_Witness ==
    /\ branch = "none"
    /\ moves = 1
    /\ events = 2
    /\ grid = prev
    /\ tilt(grid, left) # grid

\* C18: a tilt leaves the sum of the 16 cells unchanged, an effective step
\* raises the sum by exactly 2 and any other step by 0, and in every state
\* reachable from createModel the sum is 4 + 2 * (effective steps so far)
C18_TotalCountsMoves ==
    /\ GridSum(grid) = 4 + 2 * moves
    /\ events > 0 =>
         /\ GridSum(mid) = GridSum(prev)
         /\ GridSum(grid) = GridSum(prev) + (IF mid # prev THEN 2 ELSE 0)

\* the state after two effective steps, the second of which merged a pair
C18_Witness ==
    /\ moves = 2
    /\ Spawned
    /\ SomeMerge
    /\ GridSum(prev) = 6
    /\ GridSum(grid) = 8

====
